---------------------------- MODULE Spec2Model ----------------------------
(* A model of the encoding half of the asn1 package: the directive parser   *)
(* of options.go and the value-to-TLV encoder of encode.go.                 *)
(*                                                                          *)
(* Representation.                                                          *)
(*  - A directive string is the sequence of its comma-separated tokens; a   *)
(*    token is the sequence of its colon-separated pieces together with a   *)
(*    flag sp telling whether blanks surround the token text (the blanks    *)
(*    strings.TrimSpace removes).  The string "-" is the one-token string   *)
(*    whose token is the unpadded piece "-"; the empty string is the        *)
(*    one-token string whose token is the single empty piece.               *)
(*  - A Go pointer (to an int, a string, a fieldOptions or a rawValue) is  *)
(*    a sequence of length at most one: <<>> is nil.                        *)
(*  - A Go value is a record with its type name, its kind and its payload.  *)
(*  - A byte slice is a sequence of numbers.                                *)
(*  - A call's outcome is a record whose kind is "node", "absent", "ret"    *)
(*    (bytes and an error), "err" (an error value returned), "panic" (a     *)
(*    run-time panic, such as a nil pointer dereference) or "overflow" (the *)
(*    goroutine stack is exhausted by recursion).                           *)
EXTENDS Integers, Sequences, FiniteSets, TLC

\* ------------------------------------------------------------------ bounds

\* Longest directive string handed to parseOptions on its own, in tokens.
MaxTokens == 3
\* Most fields of a record, and most elements of a sequence value.
MaxFields == 3
\* Depth of applyOptions' recursion at which the goroutine stack is taken
\* to be exhausted.
MaxStack == 6

\* ------------------------------------------------------------- outcomes

Nil == <<>>
Ptr(x) == <<x>>
Deref(p) == p[1]

\* A parse error.
Err(e) == [kind |-> "err", err |-> e]
\* (raw, err) with err non-nil: the pointer returned beside the error.
ErrRaw(e, raw) == [kind |-> "err", err |-> e, raw |-> raw]
\* (data, err): the bytes returned beside the error, "" being a nil error.
Ret(data, e) == [kind |-> "ret", data |-> data, err |-> e]
Panic(e) == [kind |-> "panic", err |-> e]
Overflow == [kind |-> "overflow", err |-> "stack overflow"]
Absent == [kind |-> "absent"]
Node(raw) == [kind |-> "node", raw |-> raw]
\* An outcome that ends the caller too: an error to hand on, or a crash.
Crashed(r) == r.kind \in {"panic", "overflow"}

\* ------------------------------------------------------------- options.go

Tok(args) == [sp |-> FALSE, args |-> args]
Padded(args) == [sp |-> TRUE, args |-> args]

\* strings.TrimSpace(token) followed by strings.Split(_, ":"): the blanks
\* around the token are dropped, the pieces are kept.
TrimSplit(token) == token.args

\* The directive string "-".
IgnoreTag == << Tok(<<"-">>) >>
\* The directive string "".
EmptyTag == << Tok(<<"">>) >>

\* strconv.Atoi on the decimal strings the model uses; any other string is
\* no number.
AtoiTable == ("0" :> 0) @@ ("1" :> 1) @@ ("2" :> 2) @@ ("5" :> 5) @@ ("-1" :> -1)
AtoiOk(a) == a \in DOMAIN AtoiTable
Atoi(a) == AtoiTable[a]

\* The zero fieldOptions.
ZeroOptions ==
    [universal |-> FALSE, application |-> FALSE, explicit |-> FALSE,
     indefinite |-> FALSE, optional |-> FALSE, unique |-> FALSE, set |-> FALSE,
     tag |-> Nil, defaultValue |-> Nil, choice |-> Nil, choices |-> Nil,
     variant |-> Nil]

\* Each parse helper returns [val, err]; err = "" is a nil error.
parseBoolOption(args) ==
    IF Len(args) > 1
    THEN [val |-> FALSE, err |-> "option does not have arguments"]
    ELSE [val |-> TRUE, err |-> ""]

parseIntOption(args) ==
    IF Len(args) # 2
    THEN [val |-> Nil, err |-> "option does not have arguments"]
    ELSE IF ~AtoiOk(args[2])
    THEN [val |-> Nil, err |-> "invalid value for option"]
    ELSE [val |-> Ptr(Atoi(args[2])), err |-> ""]

parseStringOption(args) ==
    IF Len(args) # 2
    THEN [val |-> Nil, err |-> "option does not have arguments"]
    ELSE [val |-> Ptr(args[2]), err |-> ""]

BoolNames == {"universal", "application", "explicit", "indefinite", "optional",
              "unique", "set"}
StringNames == {"choice", "choices", "variant"}

\* "opts.<field>, err = <helper>(args)": the helper's value is stored in
\* the field even when the helper fails.
store(opts, field, r) == [opts |-> [opts EXCEPT ![field] = r.val], err |-> r.err]

\* parseOption: [opts, err].
parseOption(opts, args) ==
    IF args[1] = "" THEN [opts |-> opts, err |-> ""]
    ELSE IF args[1] \in BoolNames THEN store(opts, args[1], parseBoolOption(args))
    ELSE IF args[1] = "tag" THEN store(opts, "tag", parseIntOption(args))
    ELSE IF args[1] = "default" THEN store(opts, "defaultValue", parseIntOption(args))
    ELSE IF args[1] \in StringNames THEN store(opts, args[1], parseStringOption(args))
    ELSE [opts |-> opts, err |-> "Invalid option"]

\* A validation without the check of the tag's sign.
validateUnsigned(opts) ==
    IF opts.universal /\ opts.tag = Nil THEN "'tag' must be specified when 'universal' is used"
    ELSE IF opts.application /\ opts.tag = Nil THEN "'tag' must be specified when 'application' is used"
    ELSE IF opts.choice # Nil /\ Deref(opts.choice) = "" THEN "'choice' cannot be empty"
    ELSE ""

\* fieldOptions.validate: "" is a nil error.
validate(opts) ==
    IF opts.universal /\ opts.tag = Nil THEN "'tag' must be specified when 'universal' is used"
    ELSE IF opts.application /\ opts.tag = Nil THEN "'tag' must be specified when 'application' is used"
    ELSE IF opts.tag # Nil /\ Deref(opts.tag) < 0 THEN "'tag' cannot be negative"
    ELSE IF opts.choice # Nil /\ Deref(opts.choice) = "" THEN "'choice' cannot be empty"
    ELSE ""

RECURSIVE parseTokens(_, _, _)
\* The loop of parseOptions after token i gave r: the first failing token
\* ends it.
tokensNext(r, s, i) ==
    IF r.err # "" THEN r ELSE parseTokens(r.opts, s, i + 1)

\* The loop of parseOptions from token i on.
parseTokens(opts, s, i) ==
    IF i > Len(s) THEN [opts |-> opts, err |-> ""]
    ELSE tokensNext(parseOption(opts, TrimSplit(s[i])), s, i)

\* parseOptions, "if err := opts.validate(); err != nil".
validated(opts, e) ==
    IF e # "" THEN Err(e) ELSE [kind |-> "opts", opts |-> opts]

\* parseOptions after the loop gave r.
parsed(r) ==
    IF r.err # "" THEN Err(r.err) ELSE validated(r.opts, validate(r.opts))

\* parseOptions: kind "nil" is the (nil, nil) of the ignore tag, "opts" a
\* directive set, "err" a syntax error.
parseOptions(s) ==
    IF s = IgnoreTag THEN [kind |-> "nil"]
    ELSE parsed(parseTokens(ZeroOptions, s, 1))

\* ------------------------------------------------------------- Go values

\* Values are records [typ, kind, ...]: typ is the Go type's name (what
\* value.Type() gives and a choice table is keyed by), kind its reflect.Kind.
IntV(n) == [typ |-> "int", kind |-> "Int", n |-> n]
EnumV(n) == [typ |-> "asn1.Enum", kind |-> "Int", n |-> n]
StrV(s) == [typ |-> "string", kind |-> "String", s |-> s]
BoolV(b) == [typ |-> "bool", kind |-> "Bool", b |-> b]
NullV == [typ |-> "asn1.Null", kind |-> "Struct", fields |-> <<>>]
\* A nil map: a kind the encoder has no case for.
MapV == [typ |-> "map[string]int", kind |-> "Map"]
BytesV(b) == [typ |-> "[]uint8", kind |-> "Slice", elem |-> "Uint8", isNil |-> b = <<>>, bytes |-> b]
\* A slice whose element kind is not uint8; a slice of no elements is nil.
SliceV(typ, elems) == [typ |-> typ, kind |-> "Slice", elem |-> "Other", isNil |-> elems = <<>>, elems |-> elems]
StructV(typ, fields) == [typ |-> typ, kind |-> "Struct", fields |-> fields]
\* A non-nil interface value holding v.
IfaceV(v) == [typ |-> "interface {}", kind |-> "Interface", inner |-> v]
\* A struct field: its name, whether the name is exported, its tag string
\* under the package's key, and its value.
Field(name, exported, tag, val) == [name |-> name, exported |-> exported, tag |-> tag, val |-> val]

\* getActualType: the value an interface holds.
RECURSIVE getActualType(_)
getActualType(value) ==
    IF value.kind = "Interface" THEN getActualType(value.inner) ELSE value

\* isEmpty: reflect.DeepEqual of the value with the zero value of its type (a
\* struct is zero when every field is; a slice or map when it is nil; an
\* interface holding a value is not).
RECURSIVE isEmpty(_)
isEmpty(value) ==
    CASE value.kind = "Int" -> value.n = 0
      [] value.kind = "String" -> value.s = ""
      [] value.kind = "Bool" -> ~value.b
      [] value.kind = "Slice" -> value.isNil
      [] value.kind = "Map" -> TRUE
      [] value.kind = "Interface" -> FALSE
      [] value.kind = "Struct" ->
            \A i \in 1..Len(value.fields) : isEmpty(value.fields[i].val)

\* isFieldExported.
isFieldExported(field) == field.exported

\* reflect.Value.String(): the string itself for a string, "<T Value>"
\* otherwise.
StringOf(value) == IF value.kind = "String" THEN value.s ELSE "<Value>"

\* newDefaultValue: a fresh value of the field's type holding the default;
\* only integer kinds can hold one.
newDefaultValue(value, opts) ==
    IF value.kind = "Int"
    THEN [kind |-> "value", value |-> [value EXCEPT !.n = Deref(opts.defaultValue)]]
    ELSE [kind |-> "err", err |-> "default value is not supported by the type", raw |-> Nil]

\* ----------------------------------------------------------- TLV nodes

classUniversal == 0
classApplication == 1
classContextSpecific == 2

tagBoolean == 1
tagInteger == 2
tagOctetString == 4
tagNull == 5
tagEnum == 10
tagSequence == 16
tagSet == 17

\* &rawValue{}.
ZeroRaw == [Class |-> classUniversal, Tag |-> 0, Constructed |-> FALSE,
            Indefinite |-> FALSE, Content |-> <<>>]

\* The identifier octet and the length octets of a node, then its content
\* (the short forms: tag <= 30, fewer than 128 content bytes; the indefinite
\* form is 0x80 and two closing zero octets).
RawBytes(raw) ==
    LET id == raw.Class * 64 + (IF raw.Constructed THEN 32 ELSE 0) + raw.Tag
    IN IF raw.Indefinite
       THEN <<id, 128>> \o raw.Content \o <<0, 0>>
       ELSE <<id, Len(raw.Content)>> \o raw.Content

\* (*rawValue).encode on the pointer an encode call returned: a nil pointer
\* serializes to no bytes.
rawEncode(r) == IF r.kind = "absent" THEN <<>> ELSE RawBytes(r.raw)

\* rawValueSlice.Less: ascending (class, tag).
Less(a, b) ==
    \/ a.raw.Class < b.raw.Class
    \/ a.raw.Class = b.raw.Class /\ a.raw.Tag < b.raw.Tag

\* Content encoders of the primitive kinds.
StringBytes == ("" :> <<>>) @@ ("a" :> <<97>>) @@ ("b" :> <<98>>)
encodeInt(value) == <<value.n>>
encodeString(value) == StringBytes[value.s]
encodeBool(value) == IF value.b THEN <<255>> ELSE <<0>>
encodeNull(value) == <<>>
encodeOctetString(value) == value.bytes

\* ------------------------------------------------- choice and variant tables

\* The directive set a directive string parses to.
OptsOf(s) == parseOptions(s).opts

\* The choice tables as registered before any encode call: per table name,
\* its entries (type, class, tag, nested options).
\*   X     plain alternatives;
\*   Deep  an alternative whose nested options name a choice of table X;
\*   Bad   alternatives whose nested options cannot be applied to the type
\*         (indefinite on a primitive, set on a string, a choice of a table
\*         that does not exist);
\*   Loop  an alternative whose nested options name table Loop again.
ChoiceEntry(typ, class, tag, opts) == [typ |-> typ, class |-> class, tag |-> tag, opts |-> opts]
ChoiceTables ==
    ("X" :> { ChoiceEntry("int", classContextSpecific, 1, ZeroOptions),
              ChoiceEntry("string", classApplication, 2, ZeroOptions),
              ChoiceEntry("[]int", classContextSpecific, 3, ZeroOptions) })
 @@ ("Deep" :> { ChoiceEntry("int", classContextSpecific, 4, [ZeroOptions EXCEPT !.choice = Ptr("X")]) })
 @@ ("Bad" :> { ChoiceEntry("int", classContextSpecific, 1, [ZeroOptions EXCEPT !.indefinite = TRUE]),
                ChoiceEntry("string", classContextSpecific, 2, [ZeroOptions EXCEPT !.set = TRUE]),
                ChoiceEntry("bool", classContextSpecific, 3, [ZeroOptions EXCEPT !.choice = Ptr("Nope")]) })
 @@ ("Loop" :> { ChoiceEntry("int", classContextSpecific, 1, [ZeroOptions EXCEPT !.choice = Ptr("Loop")]) })

\* The entries of a table for a type; a table that does not exist has none.
entriesOf(tables, choice, typ) ==
    IF choice \in DOMAIN tables THEN { e \in tables[choice] : e.typ = typ } ELSE {}

\* getChoiceByType, given the entries found.
chosen(entries) ==
    IF entries = {}
    THEN [kind |-> "err", err |-> "lookup: no such choice entry", raw |-> Nil]
    ELSE [kind |-> "entry", entry |-> CHOOSE e \in entries : TRUE]

\* getChoiceByType: the entry of the table for the type, or a lookup error.
getChoiceByType(choice, typ) == chosen(entriesOf(ChoiceTables, choice, typ))

\* The variant tables: per table name, the options of (discriminant, field).
VariantTables ==
    ("V" :> ( (<<"a", "P">> :> [ZeroOptions EXCEPT !.tag = Ptr(1)])
           @@ (<<"a", "R">> :> [ZeroOptions EXCEPT !.tag = Ptr(2)])
           @@ (<<"a", "K">> :> ZeroOptions)
           @@ (<<"", "P">> :> [ZeroOptions EXCEPT !.tag = Ptr(0)]) ))

\* getVariant, given the table.
variantOf(tables, variant, key) ==
    IF variant \in DOMAIN tables /\ key \in DOMAIN tables[variant]
    THEN [kind |-> "opts", opts |-> tables[variant][key]]
    ELSE [kind |-> "err", err |-> "lookup: no such variant entry"]

\* getVariant: the options of (table, discriminant, field), or a lookup error.
getVariant(variant, unique, name) == variantOf(VariantTables, variant, <<unique, name>>)

\* -------------------------------------------------------------- encode.go
\* The result of each call is handed to an operator that models what the
\* caller does with it (its "if err != nil" and what follows).

RECURSIVE encode(_, _, _)
RECURSIVE EncodeWithOptions(_, _, _)
RECURSIVE applyOptions(_, _, _, _)

\* applyOptions, "Change sequence to set".
applySet(raw, opts) ==
    IF ~opts.set THEN Node(raw)
    ELSE IF raw.Class # classUniversal \/ raw.Tag # tagSequence
    THEN ErrRaw("Go type does not accept the flag 'set'", Nil)
    ELSE Node([raw EXCEPT !.Tag = tagSet])

\* applyOptions, after the recursive call on the entry's nested options: its
\* error is not looked at, and the entry's class and tag are stored through
\* the pointer it returned, which is nil when it failed.
overrideByEntry(r, entry) ==
    IF Crashed(r) THEN r
    ELSE IF r.kind = "err" /\ r.raw = Nil THEN Panic("nil pointer dereference")
    ELSE Node([r.raw EXCEPT !.Class = entry.class, !.Tag = entry.tag])

\* applyOptions, the choice step after getChoiceByType returned found.
applyEntry(value, raw, found, depth) ==
    IF found.kind = "err" THEN ErrRaw(found.err, Nil)
    ELSE overrideByEntry(applyOptions(value, raw, found.entry.opts, depth + 1),
                         found.entry)

\* applyOptions, "Check if this type is an Asn.1 choice".
applyChoice(value, raw, opts, depth) ==
    IF opts.choice = Nil THEN Node(raw)
    ELSE applyEntry(value, raw, getChoiceByType(Deref(opts.choice), value.typ), depth)

\* A wrapping that keeps the content of the node and drops its identifier
\* and length.
applyExplicitContent(raw, opts) ==
    IF ~opts.explicit THEN Node(raw)
    ELSE IF opts.tag = Nil
    THEN ErrRaw("invalid flag 'explicit' without tag", Nil)
    ELSE Node([ZeroRaw EXCEPT !.Constructed = TRUE, !.Content = raw.Content])

\* applyOptions, "Add an enclosing tag".
applyExplicit(raw, opts) ==
    IF ~opts.explicit THEN Node(raw)
    ELSE IF opts.tag = Nil
    THEN ErrRaw("invalid flag 'explicit' without tag", Nil)
    ELSE Node([ZeroRaw EXCEPT !.Constructed = TRUE, !.Content = RawBytes(raw)])

\* applyOptions, "Change tag".
applyTag(raw, opts) ==
    IF opts.tag # Nil
    THEN [raw EXCEPT !.Class = classContextSpecific, !.Tag = Deref(opts.tag)]
    ELSE raw

\* applyOptions, "Change class".
applyClass(raw, opts) ==
    [raw EXCEPT !.Class = IF opts.application THEN classApplication
                          ELSE IF opts.universal THEN classUniversal
                          ELSE @]

\* applyOptions, "Use the indefinite length encoding".
applyIndefinite(raw, opts) ==
    IF ~opts.indefinite THEN Node(raw)
    ELSE IF ~raw.Constructed
    THEN ErrRaw("invalid flag 'indefinite'", Nil)
    ELSE Node([raw EXCEPT !.Indefinite = TRUE])

\* applyOptions after the explicit step gave s.
applyAfterExplicit(s, opts) ==
    IF s.kind # "node" THEN s
    ELSE applyIndefinite(applyClass(applyTag(s.raw, opts), opts), opts)

\* applyOptions after the choice step gave s.
applyAfterChoice(s, opts) ==
    IF s.kind # "node" THEN s
    ELSE applyAfterExplicit(applyExplicit(s.raw, opts), opts)

\* applyOptions after the set step gave s.
applyAfterSet(value, s, opts, depth) ==
    IF s.kind # "node" THEN s
    ELSE applyAfterChoice(applyChoice(value, s.raw, opts, depth), opts)

\* applyOptions; depth counts the calls nested in one another.
applyOptions(value, raw, opts, depth) ==
    IF depth > MaxStack THEN Overflow
    ELSE applyAfterSet(value, applySet(raw, opts), opts, depth)

\* A child that is a node, not the nil of an absent field.
IsNode(r) == r.kind = "node"

\* The children collected so far.
Children(children) == [kind |-> "children", children |-> children]

\* What getRawValuesFromFields does with the result r of a field's encode:
\* the children with r appended, (nil, err), or a crash.
appendChild(children, r) ==
    IF Crashed(r) THEN r
    ELSE IF r.kind = "err" THEN Err(r.err)
    ELSE Children(Append(children, r))

RECURSIVE variantFields(_, _, _, _, _, _)
\* The loop over the sub-fields goes on from sub-field k + 1 with the
\* children c.children, unless c is an error or a crash.
variantNext(ctx, variant, fieldValue, k, uniqueValue, c) ==
    IF c.kind # "children" THEN c
    ELSE variantFields(ctx, variant, fieldValue, k + 1, uniqueValue, c.children)

\* The body of the loop once the options o of sub-field k are there: o is
\* the result of getVariant when a discriminant is recorded, of parseOptions
\* on the sub-field's own tag when none is; o.unique is then read through
\* the pointer parseOptions returned, which is nil for the tag "-".
variantField(ctx, variant, fieldValue, k, uniqueValue, children, o) ==
    IF o.kind = "err" THEN Err(o.err)
    ELSE IF o.kind = "nil" THEN Panic("nil pointer dereference")
    ELSE variantNext(ctx, variant, fieldValue, k,
                     IF uniqueValue = "" /\ o.opts.unique
                     THEN StringOf(fieldValue.fields[k].val)
                     ELSE uniqueValue,
                     appendChild(children, encode(ctx, fieldValue.fields[k].val, o.opts)))

\* getRawValuesFromFields, the loop over the sub-fields of a variant field
\* from sub-field k on; uniqueValue is the discriminant recorded so far.
variantFields(ctx, variant, fieldValue, k, uniqueValue, children) ==
    IF fieldValue.kind # "Struct" THEN Panic("reflect: NumField of non-struct type")
    ELSE IF k > Len(fieldValue.fields) THEN Children(children)
    ELSE variantField(ctx, variant, fieldValue, k, uniqueValue, children,
                      IF uniqueValue # ""
                      THEN getVariant(variant, uniqueValue, fieldValue.fields[k].name)
                      ELSE parseOptions(fieldValue.fields[k].tag))

RECURSIVE structFields(_, _, _, _)
\* The loop over the fields goes on from field i + 1 with the children
\* c.children, unless c is an error or a crash.
structNext(ctx, value, i, c) ==
    IF c.kind # "children" THEN c
    ELSE structFields(ctx, value, i + 1, c.children)

\* The body of the loop for an exported field whose tag parsed to o.
structField(ctx, f, children, o) ==
    IF o.kind = "err" THEN Err(o.err)
    ELSE IF o.kind = "nil" THEN Children(children)
    ELSE IF o.opts.variant # Nil
    THEN variantFields(ctx, Deref(o.opts.variant), f.val, 1, "", children)
    ELSE appendChild(children, encode(ctx, f.val, o.opts))

\* getRawValuesFromFields, the loop over the fields from field i on.
structFields(ctx, value, i, children) ==
    IF i > Len(value.fields) THEN Children(children)
    ELSE structNext(ctx, value, i,
                    IF ~isFieldExported(value.fields[i]) THEN Children(children)
                    ELSE structField(ctx, value.fields[i], children,
                                     parseOptions(value.fields[i].tag)))

\* getRawValuesFromFields: kind "children" with the slice of pointers (a node
\* or the nil of an absent field each), kind "err" for (nil, err), or a crash.
getRawValuesFromFields(ctx, value) == structFields(ctx, value, 1, <<>>)

\* encodeRawValues.
RECURSIVE encodeRawValues(_)
encodeRawValues(values) ==
    IF values = <<>> THEN <<>>
    ELSE rawEncode(Head(values)) \o encodeRawValues(Tail(values))

\* sort.Sort on a slice of at most twelve elements is an insertion sort:
\* each element moves left while it is Less than its predecessor.
RECURSIVE insertChild(_, _)
insertChild(sorted, x) ==
    IF sorted = <<>> \/ ~Less(x, sorted[Len(sorted)]) THEN Append(sorted, x)
    ELSE Append(insertChild(SubSeq(sorted, 1, Len(sorted) - 1), x), sorted[Len(sorted)])

RECURSIVE sortFrom(_, _, _)
sortFrom(children, i, sorted) ==
    IF i > Len(children) THEN sorted
    ELSE sortFrom(children, i + 1, insertChild(sorted, children[i]))

\* sort.Sort(rawValueSlice(children)): with two children or more every child
\* is compared, and comparing a nil child dereferences it.
sortChildren(children) ==
    IF Len(children) >= 2 /\ \E i \in 1..Len(children) : ~IsNode(children[i])
    THEN Panic("nil pointer dereference")
    ELSE Children(sortFrom(children, 1, <<>>))

\* encodeStruct and encodeStructAsSet, after getRawValuesFromFields returned
\* c: its error is handed on, its children are serialized one after another.
encodeChildren(c) ==
    IF Crashed(c) THEN c
    ELSE IF c.kind = "err" THEN Ret(<<>>, c.err)
    ELSE Ret(encodeRawValues(c.children), "")

\* encodeStruct.
encodeStruct(ctx, value) == encodeChildren(getRawValuesFromFields(ctx, value))

\* encodeStructAsSet, "Sort if necessary".
sortIfNecessary(ctx, c) ==
    IF c.kind = "children" /\ ctx.der THEN sortChildren(c.children) ELSE c

\* encodeStructAsSet.
encodeStructAsSet(ctx, value) ==
    encodeChildren(sortIfNecessary(ctx, getRawValuesFromFields(ctx, value)))

RECURSIVE encodeElements(_, _, _, _, _)
\* A loop that leaves out an element whose encoding fails and goes on with
\* the next.
elementsSkipFailed(ctx, value, options, i, content, r) ==
    IF Crashed(r) THEN r
    ELSE encodeElements(ctx, value, options, i + 1,
                        IF r.err # "" THEN content ELSE content \o r.data)

\* What the loop does with the result r of element i: (nil, err) on an
\* error, else the bytes are appended and the loop goes on.
elementsNext(ctx, value, options, i, content, r) ==
    IF Crashed(r) THEN r
    ELSE IF r.err # "" THEN Ret(<<>>, r.err)
    ELSE encodeElements(ctx, value, options, i + 1, content \o r.data)

\* The loop of encodeSlice and of encodeChoices from element i on: each
\* element goes through EncodeWithOptions with the given directive string.
encodeElements(ctx, value, options, i, content) ==
    IF i > Len(value.elems) THEN Ret(content, "")
    ELSE elementsNext(ctx, value, options, i, content,
                      EncodeWithOptions(ctx, value.elems[i], options))

\* fmt.Sprintf("choice:%s", choiceName), as parseOptions will split it.
choiceDirective(choiceName) == << Tok(<<"choice", choiceName>>) >>

\* encodeSlice: each element goes through EncodeWithOptions with the empty
\* directive string.
encodeSlice(ctx, value) == encodeElements(ctx, value, EmptyTag, 1, <<>>)

\* encodeChoices(choiceName)(value): each element goes through
\* EncodeWithOptions with the directive string "choice:<choiceName>".
encodeChoices(ctx, choiceName, value) ==
    encodeElements(ctx, value, choiceDirective(choiceName), 1, <<>>)

\* encodeValue, the slice case after the choice lookup gave found: the
\* options' choices directive picks encodeChoices, else encodeSlice.
encodeSliceWith(ctx, value, found) ==
    IF found.kind = "err" THEN found
    ELSE IF found.entry.opts.choices # Nil
    THEN encodeChoices(ctx, Deref(found.entry.opts.choices), value)
    ELSE encodeSlice(ctx, value)

\* encodeValue, the slice case: a choice directive replaces the options by
\* the entry's.
encodeSliceValue(ctx, value, opts) ==
    encodeSliceWith(ctx, value,
                    IF opts.choice # Nil
                    THEN getChoiceByType(Deref(opts.choice), value.typ)
                    ELSE [kind |-> "entry", entry |-> [opts |-> opts]])

\* encodeValue, the two switches: the node's tag and constructed flag and the
\* encoder chosen, "" when there is none.
classify(value, opts) ==
    CASE value.typ = "asn1.Null" -> [Tag |-> tagNull, Constructed |-> FALSE, encoder |-> "encodeNull"]
      [] value.typ = "asn1.Enum" -> [Tag |-> tagEnum, Constructed |-> FALSE, encoder |-> "encodeInt"]
      [] OTHER ->
         CASE value.kind = "Bool" -> [Tag |-> tagBoolean, Constructed |-> FALSE, encoder |-> "encodeBool"]
           [] value.kind = "String" -> [Tag |-> tagOctetString, Constructed |-> FALSE, encoder |-> "encodeString"]
           [] value.kind = "Int" -> [Tag |-> tagInteger, Constructed |-> FALSE, encoder |-> "encodeInt"]
           [] value.kind = "Struct" ->
                [Tag |-> tagSequence, Constructed |-> TRUE,
                 encoder |-> IF opts.set THEN "encodeStructAsSet" ELSE "encodeStruct"]
           [] value.kind = "Slice" /\ value.elem = "Uint8" ->
                [Tag |-> tagOctetString, Constructed |-> FALSE, encoder |-> "encodeOctetString"]
           [] value.kind = "Slice" /\ value.elem # "Uint8" ->
                [Tag |-> tagSequence, Constructed |-> TRUE, encoder |-> "slice"]
           [] OTHER -> [Tag |-> 0, Constructed |-> FALSE, encoder |-> ""]

\* encoder(value): (content, err), or a crash; a choice lookup that fails in
\* the slice case is encodeValue's own (nil, err).
runEncoder(ctx, encoder, value, opts) ==
    CASE encoder = "encodeNull" -> Ret(encodeNull(value), "")
      [] encoder = "encodeInt" -> Ret(encodeInt(value), "")
      [] encoder = "encodeBool" -> Ret(encodeBool(value), "")
      [] encoder = "encodeString" -> Ret(encodeString(value), "")
      [] encoder = "encodeOctetString" -> Ret(encodeOctetString(value), "")
      [] encoder = "encodeStruct" -> encodeStruct(ctx, value)
      [] encoder = "encodeStructAsSet" -> encodeStructAsSet(ctx, value)
      [] encoder = "slice" -> encodeSliceValue(ctx, value, opts)

\* encodeValue, "raw.Content, err = encoder(value); return": a node, or
\* (raw, err) where raw is the node without content.
withContent(raw, r) ==
    IF Crashed(r) THEN r
    ELSE IF r.kind = "err" THEN r
    ELSE IF r.err # "" THEN ErrRaw(r.err, Ptr([raw EXCEPT !.Content = r.data]))
    ELSE Node([raw EXCEPT !.Content = r.data])

\* encodeValue once the switches gave c.
encodeClassified(ctx, value, opts, c) ==
    IF c.encoder = "" THEN ErrRaw("invalid Go type", Nil)
    ELSE withContent([ZeroRaw EXCEPT !.Tag = c.Tag, !.Constructed = c.Constructed],
                     runEncoder(ctx, c.encoder, value, opts))

\* encodeValue: a node, (raw, err) from the encoder, or (nil, err).
encodeValue(ctx, value, opts) ==
    encodeClassified(ctx, value, opts, classify(value, opts))

\* A substitution that does not look at the mode: what encode would do if
\* the default were used under DER too.
substitutesDefaultInAnyMode(ctx, value, opts) ==
    opts.defaultValue # Nil /\ isEmpty(value)

\* encode, "If a value is missing the default value is used": whether the
\* default is substituted for the value.
substitutesDefault(ctx, value, opts) ==
    opts.defaultValue # Nil /\ isEmpty(value) /\ ~ctx.der

\* An omission that does not look at the value: what encode would do if
\* every optional field were left out.
omitsEveryOptional(opts, empty) ==
    opts.optional \/ opts.defaultValue # Nil

\* encode, "check if it's optional": whether the call returns (nil, nil).
omits(opts, empty) ==
    (opts.optional \/ opts.defaultValue # Nil) /\ empty

\* encode, after applyOptions returned a: its error is handed on as
\* (nil, err).
encodeReturn(a) ==
    IF a.kind = "err" THEN ErrRaw(a.err, Nil) ELSE a

\* encode, after encodeValue returned r: its error is handed on as
\* (nil, err), its node goes through applyOptions.
encodeApply(value, opts, r) ==
    IF Crashed(r) THEN r
    ELSE IF r.kind = "err" THEN ErrRaw(r.err, Nil)
    ELSE encodeReturn(applyOptions(value, r.raw, opts, 1))

\* encode from "Encode data" on.
encodeNode(ctx, value, opts) ==
    encodeApply(value, opts, encodeValue(ctx, value, opts))

\* encode once the default is decided: subst tells whether it is
\* substituted, dv what newDefaultValue returned (the value itself when
\* it was not called); empty is cleared by a substitution.
encodeWith(ctx, value, opts, subst, dv) ==
    IF dv.kind = "err" THEN ErrRaw(dv.err, Nil)
    ELSE IF omits(opts, ~subst /\ isEmpty(value)) THEN Absent
    ELSE encodeNode(ctx, dv.value, opts)

\* encode on the value under the interface.
encodeActual(ctx, value, opts, subst) ==
    encodeWith(ctx, value, opts, subst,
               IF subst THEN newDefaultValue(value, opts)
               ELSE [kind |-> "value", value |-> value])

\* encode: a node, "absent" for (nil, nil), (nil, err), or a crash.
encode(ctx, value, opts) ==
    encodeActual(ctx, getActualType(value), opts,
                 substitutesDefault(ctx, getActualType(value), opts))

\* EncodeWithOptions, after encode returned r: (nil, err), or the node's
\* serialization.
encodeData(r) ==
    IF Crashed(r) THEN r
    ELSE IF r.kind = "err" THEN Ret(<<>>, r.err)
    ELSE Ret(rawEncode(r), "")

\* EncodeWithOptions once the options parsed to o.
encodeParsed(ctx, obj, o) ==
    IF o.kind = "err" THEN Ret(<<>>, o.err)
    ELSE IF o.kind = "nil" THEN Ret(<<>>, "")
    ELSE encodeData(encode(ctx, getActualType(obj), o.opts))

\* EncodeWithOptions: (data, err), or a crash.  reflect.ValueOf(obj) is the
\* value the interface obj holds.
EncodeWithOptions(ctx, obj, options) ==
    encodeParsed(ctx, obj, parseOptions(options))

\* ------------------------------------------------------------------ state

VARIABLES
    der,      \* ctx.der.encoding
    op,       \* the call in progress: "idle" when none
    arg,      \* the call's arguments
    out       \* what the call returned

vars == <<der, op, arg, out>>

\* The directive strings handed to parseOptions on its own.
ParseTokenPool ==
    { Tok(<<"">>), Tok(<<"-">>), Padded(<<"-">>), Tok(<<"bogus">>),
      Tok(<<"universal">>), Tok(<<"application">>), Padded(<<"optional">>),
      Tok(<<"explicit", "1">>),
      Tok(<<"tag">>), Tok(<<"tag", "5">>), Tok(<<"tag", "-1">>), Tok(<<"tag", "x">>),
      Tok(<<"default", "1">>),
      Tok(<<"choice", "X">>), Tok(<<"choice", "">>), Tok(<<"choices", "">>) }

SeqsUpTo(S, n) == UNION { [1..k -> S] : k \in 1..n }

ParseInputs == SeqsUpTo(ParseTokenPool, MaxTokens)

\* The directive strings of the encode calls.
T1(a) == << Tok(<<a>>) >>
T2(a, b) == << Tok(<<a, b>>) >>
Directives ==
    { EmptyTag, IgnoreTag, T1("bogus"),
      T1("optional"), T2("default", "1"), T2("default", "0"),
      T1("optional") \o T2("default", "5"),
      T2("tag", "5"), T1("explicit"), T1("explicit") \o T2("tag", "5"),
      T2("tag", "5") \o T1("explicit") \o T1("application"),
      T1("universal") \o T2("tag", "1") \o T1("explicit"),
      T1("explicit") \o T2("tag", "5") \o T1("indefinite"),
      T1("optional") \o T1("explicit") \o T2("tag", "2"),
      T1("set"), T1("indefinite"),
      T2("choice", "X"), T2("choice", "Deep"), T2("choice", "Bad"),
      T2("choice", "Loop"), T2("choice", "Nope"),
      T2("choice", "X") \o T1("explicit") \o T2("tag", "5"),
      T2("choices", "X"), T2("choices", "Bad"), T2("choices", "Deep"),
      T2("choices", "X") \o T1("optional"), T2("choices", ""),
      T2("choices", "Loop") }

\* The fields records are built from.
FieldPool ==
    { Field("A", TRUE, EmptyTag, IntV(1)),
      Field("B", TRUE, T1("optional"), IntV(0)),
      Field("C", TRUE, T2("tag", "1"), StrV("a")),
      Field("D", TRUE, T2("tag", "1"), IntV(2)),
      Field("E", TRUE, IgnoreTag, IntV(5)),
      Field("f", FALSE, EmptyTag, IntV(1)),
      Field("G", TRUE, T2("default", "1"), IntV(0)),
      Field("H", TRUE, T1("application") \o T2("tag", "0"), IfaceV(BoolV(TRUE))),
      Field("I", TRUE, T1("set"),
            StructV("Inner", << Field("Y", TRUE, T2("tag", "2"), IntV(2)),
                                Field("X", TRUE, T2("tag", "1"), IntV(1)) >>)),
      Field("J", TRUE, T1("indefinite"), IntV(1)) }

\* The sub-fields the value of a variant field is built from.
SubFieldPool ==
    { Field("K", TRUE, T1("unique"), StrV("a")),
      Field("Z", TRUE, T1("unique"), StrV("")),
      Field("P", TRUE, T2("tag", "5"), IntV(1)),
      Field("Q", TRUE, T1("optional"), IntV(0)),
      Field("R", TRUE, IgnoreTag, IntV(2)) }

\* The sequences of at most n fields of a pool with no field name twice.
FieldSeqs(pool, n) ==
    { fs \in SeqsUpTo(pool, n) :
        \A i, j \in 1..Len(fs) : i # j => fs[i].name # fs[j].name }

PlainRecords == { StructV("Rec", fs) : fs \in FieldSeqs(FieldPool, MaxFields) }
VariantRecords ==
    { StructV("Msg", << Field("Body", TRUE, T2("variant", "V"), StructV("Body", fs)) >>) :
        fs \in FieldSeqs(SubFieldPool, MaxFields) }
    \cup { StructV("Msg", << Field("Body", TRUE, T2("variant", "V"), IntV(1)) >>) }
Records == PlainRecords \cup VariantRecords

\* The elements sequence values are built from, and the sequence values.
ElemPool == { IfaceV(IntV(1)), IfaceV(StrV("a")), IfaceV(BoolV(TRUE)), IfaceV(IntV(0)) }
Slices ==
    { SliceV("[]interface {}", es) : es \in SeqsUpTo(ElemPool, MaxFields) }
    \cup { SliceV("[]int", <<>>), SliceV("[]int", << IntV(1), IntV(2) >>) }

Primitives ==
    { IntV(0), IntV(1), StrV(""), StrV("a"), BoolV(FALSE), BoolV(TRUE),
      EnumV(2), NullV, MapV, BytesV(<<>>), BytesV(<<7>>), IfaceV(IntV(5)) }

SampleRecords ==
    { StructV("Rec", <<>>),
      StructV("Rec", << Field("A", TRUE, EmptyTag, IntV(0)) >>),
      StructV("Rec", << Field("A", TRUE, EmptyTag, IntV(1)),
                        Field("C", TRUE, T2("tag", "1"), StrV("a")) >>),
      StructV("Rec", << Field("L", TRUE, T2("choices", "X"),
                              SliceV("[]interface {}", << IfaceV(IntV(1)), IfaceV(BoolV(TRUE)) >>)) >>),
      StructV("Rec", << Field("M", TRUE, T2("choice", "Bad"), StrV("a")) >>) }

Values == Primitives \cup Slices \cup SampleRecords

Ctx == [der |-> der]

Init ==
    /\ der = FALSE
    /\ op = "idle"
    /\ arg = <<>>
    /\ out = <<>>

\* ctx.SetDER: the context's mode flag, set between calls.
SetDer ==
    /\ op = "idle"
    /\ der' = ~der
    /\ UNCHANGED <<op, arg, out>>

CallParseOptions ==
    /\ op = "idle"
    /\ \E s \in ParseInputs :
        /\ op' = "parseOptions"
        /\ arg' = [s |-> s]
        /\ out' = parseOptions(s)
    /\ UNCHANGED der

\* ctx.encode on a value and the directive set a directive string parsed to.
CallEncode ==
    /\ op = "idle"
    /\ \E value \in Values, s \in Directives :
        /\ parseOptions(s).kind = "opts"
        /\ op' = "encode"
        /\ arg' = [value |-> value, opts |-> OptsOf(s)]
        /\ out' = encode(Ctx, value, OptsOf(s))
    /\ UNCHANGED der

CallEncodeWithOptions ==
    /\ op = "idle"
    /\ \E obj \in Values, options \in Directives :
        /\ op' = "EncodeWithOptions"
        /\ arg' = [obj |-> obj, options |-> options]
        /\ out' = EncodeWithOptions(Ctx, obj, options)
    /\ UNCHANGED der

CallGetRawValuesFromFields ==
    /\ op = "idle"
    /\ \E value \in Records :
        /\ op' = "getRawValuesFromFields"
        /\ arg' = [value |-> value]
        /\ out' = getRawValuesFromFields(Ctx, value)
    /\ UNCHANGED der

CallEncodeStructAsSet ==
    /\ op = "idle"
    /\ \E value \in PlainRecords :
        /\ op' = "encodeStructAsSet"
        /\ arg' = [value |-> value]
        /\ out' = encodeStructAsSet(Ctx, value)
    /\ UNCHANGED der

\* The call has returned; the context is as it was.
Return ==
    /\ op # "idle"
    /\ op' = "idle"
    /\ arg' = <<>>
    /\ out' = <<>>
    /\ UNCHANGED der

Next ==
    \/ SetDer
    \/ CallParseOptions
    \/ CallEncode
    \/ CallEncodeWithOptions
    \/ CallGetRawValuesFromFields
    \/ CallEncodeStructAsSet
    \/ Return

Spec == Init /\ [][Next]_vars

\* ----------------------------------------------------------------- claims

KnownNames == BoolNames \cup StringNames \cup {"tag", "default", ""}
TokenName(token) == TrimSplit(token)[1]
HasName(s, name) == \E i \in 1..Len(s) : TokenName(s[i]) = name
IsNegativeTag(token) ==
    /\ TokenName(token) = "tag"
    /\ Len(token.args) = 2
    /\ AtoiOk(token.args[2])
    /\ Atoi(token.args[2]) < 0
\* Token i is the last token named tag.
LastTag(s, i) ==
    /\ TokenName(s[i]) = "tag"
    /\ \A j \in (i + 1)..Len(s) : TokenName(s[j]) # "tag"

\* What C6 says of every parse, but for the negative tag.
C6_Common ==
    LET s == arg.s IN
    /\ out.kind \in {"nil", "err", "opts"}
    /\ out.kind = "nil" <=> s = IgnoreTag
    /\ out.kind = "opts" =>
           /\ (out.opts.universal \/ out.opts.application) => out.opts.tag # Nil
           /\ out.opts.tag # Nil => Deref(out.opts.tag) >= 0
           /\ out.opts.choice # Nil => Deref(out.opts.choice) # ""
    /\ (s # IgnoreTag /\ \E i \in 1..Len(s) : TokenName(s[i]) \notin KnownNames)
           => out.kind = "err"
    /\ ((HasName(s, "universal") \/ HasName(s, "application")) /\ ~HasName(s, "tag"))
           => out.kind = "err"

\* C6 as stated: parseOptions(s) is the ignore result (only for s = "-"), a
\* syntax error or a directive set that satisfies the three constraints;
\* an unknown token name, universal or application without tag, and a
\* negative tag token anywhere in s always give a syntax error.
C6_Original ==
    op = "parseOptions" =>
        /\ C6_Common
        /\ (\E i \in 1..Len(arg.s) : IsNegativeTag(arg.s[i])) => out.kind = "err"

\* C6 amended: as C6_Original, but a negative tag token gives the syntax
\* error when it is the last tag token of s; a later tag token replaces it
\* before validation runs.
C6_ParseContract ==
    op = "parseOptions" =>
        /\ C6_Common
        /\ (\E i \in 1..Len(arg.s) : IsNegativeTag(arg.s[i]) /\ LastTag(arg.s, i))
               => out.kind = "err"

\* A parse where the negative tag comes first, every token parses, and the
\* validation after the merge rejects it.
C6_Witness ==
    /\ op = "parseOptions"
    /\ Len(arg.s) >= 2
    /\ IsNegativeTag(arg.s[1])
    /\ HasName(arg.s, "universal")
    /\ out = Err("'tag' cannot be negative")


\* The value under the interface of an encode call's argument.
ArgValue == getActualType(arg.value)

\* The nested options of the choice entry matched for EncodeWithOptions'
\* argument fail to apply to the node the value encodes to.
NestedOptionsFail ==
    /\ op = "EncodeWithOptions"
    /\ parseOptions(arg.options).kind = "opts"
    /\ LET opts == OptsOf(arg.options)
           value == getActualType(arg.obj)
           r == encodeValue(Ctx, value, opts)
       IN /\ opts.choice # Nil
          /\ ~opts.set
          /\ r.kind = "node"
          /\ getChoiceByType(Deref(opts.choice), value.typ).kind = "entry"
          /\ applyOptions(value, r.raw,
                          getChoiceByType(Deref(opts.choice), value.typ).entry.opts,
                          2).kind = "err"

\* C1: a failure at any depth of an EncodeWithOptions call is returned to the
\* caller as an error with no bytes; in particular an error raised while the
\* nested options of a matched choice entry are applied is returned, it is
\* neither dropped nor turned into a crash.
C1_ErrorsReturned ==
    /\ op = "EncodeWithOptions" /\ out.kind = "ret" /\ out.err # "" => out.data = <<>>
    /\ NestedOptionsFail => out.kind = "ret" /\ out.err # "" /\ out.data = <<>>

\* C2 as stated: with optional set, encode of a zero value is absent (no
\* node, no error) and encode of a value that is not zero is never absent.
C2_Original ==
    op = "encode" /\ arg.opts.optional =>
        /\ isEmpty(ArgValue) => out = Absent
        /\ ~isEmpty(ArgValue) => out.kind # "absent"

\* C2 amended: with optional set, encode of a zero value is absent unless a
\* default is set too and the mode is BER, where the default is substituted
\* and the result is not absent; encode of a value that is not zero is never
\* absent: it is a node unless the encoding of the value fails.
C2_OptionalOmission ==
    op = "encode" /\ arg.opts.optional =>
        /\ isEmpty(ArgValue) /\ (arg.opts.defaultValue = Nil \/ der) => out = Absent
        /\ isEmpty(ArgValue) /\ arg.opts.defaultValue # Nil /\ ~der => out.kind # "absent"
        /\ ~isEmpty(ArgValue) => out.kind # "absent"
        /\ ~isEmpty(ArgValue) /\ ArgValue.kind \in {"Int", "String", "Bool"}
             /\ arg.opts.choice = Nil /\ ~arg.opts.set /\ ~arg.opts.indefinite
             /\ (arg.opts.explicit => arg.opts.tag # Nil)
               => out.kind = "node"

\* An optional zero value left out, and an optional value that is not zero
\* encoded to a node, seen from the mode the call ran in.
C2_Witness ==
    /\ op = "encode"
    /\ arg.opts.optional
    /\ arg.opts.defaultValue = Nil
    /\ arg.opts.explicit
    /\ ~isEmpty(ArgValue)
    /\ out.kind = "node"

\* The options without the default and the optional flag.
WithoutDefault(opts) == [opts EXCEPT !.defaultValue = Nil, !.optional = FALSE]

\* C3: for a zero value with a default D, encode in BER mode substitutes a
\* value holding D and returns a node encoding D, never absent, whether or
\* not optional is set; in DER mode nothing is substituted and encode
\* returns absent.  The node encoding D is the node an integer holding D
\* encodes to under the same options.
C3_DefaultSubstitution ==
    op = "encode" /\ arg.opts.defaultValue # Nil /\ isEmpty(ArgValue) =>
        /\ der => out = Absent
        /\ ~der => out.kind # "absent"
        /\ ~der /\ ArgValue.kind = "Int" =>
              out = encode(Ctx, [ArgValue EXCEPT !.n = Deref(arg.opts.defaultValue)],
                           WithoutDefault(arg.opts))
        /\ ~der /\ ArgValue.typ = "int" /\ WithoutDefault(arg.opts) = ZeroOptions =>
              out = Node([ZeroRaw EXCEPT !.Tag = tagInteger,
                                         !.Content = <<Deref(arg.opts.defaultValue)>>])

\* A zero integer with optional and default:5, encoded in BER mode to the
\* node of the integer 5.
C3_Witness ==
    /\ op = "encode"
    /\ ~der
    /\ arg.opts.optional
    /\ arg.opts.defaultValue = Ptr(5)
    /\ ArgValue = IntV(0)
    /\ out = Node([ZeroRaw EXCEPT !.Tag = tagInteger, !.Content = <<5>>])

\* The rearrangements of n fields.
Rearrangements(n) == { p \in [1..n -> 1..n] : \A i, j \in 1..n : p[i] = p[j] => i = j }
Reordered(value, p) ==
    [value EXCEPT !.fields = [i \in 1..Len(value.fields) |-> value.fields[p[i]]]]

\* C4: in DER mode the bytes encodeStructAsSet gives for a record do not
\* depend on the declaration order of its fields: every rearrangement of the
\* fields, fields of equal (class, tag) and fields that encode to absent
\* included, gives the same result, and the call does not crash.
C4_OrderIndependent ==
    op = "encodeStructAsSet" /\ der =>
        /\ out.kind = "ret"
        /\ \A p \in Rearrangements(Len(arg.value.fields)) :
              encodeStructAsSet(Ctx, Reordered(arg.value, p)) = out

\* The options without the wrapping and what is applied after it.
Unwrapped(opts) ==
    [opts EXCEPT !.explicit = FALSE, !.tag = Nil, !.universal = FALSE,
                 !.application = FALSE, !.indefinite = FALSE]

\* What C5 says of the node but for its class: it is constructed, has the
\* tag N, and its content is the serialization of the node the value encodes
\* to without the wrapping.
C5_Wraps ==
    /\ out.raw.Constructed
    /\ out.raw.Tag = Deref(arg.opts.tag)
    /\ encode(Ctx, arg.value, Unwrapped(arg.opts)).kind = "node"
    /\ out.raw.Content = RawBytes(encode(Ctx, arg.value, Unwrapped(arg.opts)).raw)

\* C5 as stated: the node of a value encoded with explicit and tag:N is
\* constructed, has class context-specific and tag N, and its content is the
\* full serialization of the node before wrapping.
C5_Original ==
    op = "encode" /\ arg.opts.explicit /\ arg.opts.tag # Nil /\ out.kind = "node" =>
        /\ C5_Wraps
        /\ out.raw.Class = classContextSpecific

\* C5 amended: as C5_Original, but the class is context-specific only when
\* neither application nor universal is set; with application it is the
\* application class, else with universal the universal class.
C5_ExplicitWrap ==
    op = "encode" /\ arg.opts.explicit /\ arg.opts.tag # Nil /\ out.kind = "node" =>
        /\ C5_Wraps
        /\ out.raw.Class = IF arg.opts.application THEN classApplication
                           ELSE IF arg.opts.universal THEN classUniversal
                           ELSE classContextSpecific

\* A choice value wrapped: the inner node carries the class and tag of the
\* choice entry, the outer one the context-specific class and tag 5.
C5_Witness ==
    /\ op = "encode"
    /\ arg.opts.explicit
    /\ arg.opts.tag = Ptr(5)
    /\ arg.opts.choice = Ptr("X")
    /\ ArgValue = StrV("a")
    /\ out = Node([ZeroRaw EXCEPT !.Class = classContextSpecific, !.Tag = 5,
                                  !.Constructed = TRUE,
                                  !.Content = <<classApplication * 64 + 2, 1, 97>>])

\* EncodeWithOptions is on a sequence value whose elements are not bytes,
\* with options that parse to a set naming a non-empty choices table and no
\* choice.
ChoicesCall ==
    /\ op = "EncodeWithOptions"
    /\ getActualType(arg.obj).kind = "Slice"
    /\ getActualType(arg.obj).elem # "Uint8"
    /\ parseOptions(arg.options).kind = "opts"
    /\ OptsOf(arg.options).choices # Nil
    /\ Deref(OptsOf(arg.options).choices) # ""
    /\ OptsOf(arg.options).choice = Nil

\* Whether the type of element i of a choices call is registered in the
\* table named, and whether the element on its own encodes without error.
ElemRegistered(i) ==
    entriesOf(ChoiceTables, Deref(OptsOf(arg.options).choices),
              getActualType(getActualType(arg.obj).elems[i]).typ) # {}
ElemResult(i) ==
    EncodeWithOptions(Ctx, getActualType(arg.obj).elems[i],
                      choiceDirective(Deref(OptsOf(arg.options).choices)))
ElemEncodes(i) == ElemResult(i).kind = "ret" /\ ElemResult(i).err = ""

\* Element p is the first whose type is not registered.
FirstUnregistered(p) ==
    /\ p \in 1..Len(getActualType(arg.obj).elems)
    /\ ~ElemRegistered(p)
    /\ \A j \in 1..(p - 1) : ElemRegistered(j)

\* C7: encoding a sequence value with choices:X, one of whose elements has a
\* type that is not registered in table X, ends in a lookup error with zero
\* bytes, whatever the length of the sequence and the position of the first
\* such element: the bytes of the registered elements before it are not
\* returned.  (An element before it whose own encoding crashes ends the call
\* in that crash; one whose encoding fails ends it in that error, with zero
\* bytes too.)
C7_NoPartialContent ==
    ChoicesCall /\ (\E p \in 1..MaxFields + 1 : FirstUnregistered(p)) =>
        /\ ~Crashed(out) => out.kind = "ret" /\ out.err # "" /\ out.data = <<>>
        /\ (\A p \in 1..MaxFields + 1 :
               FirstUnregistered(p) => \A j \in 1..(p - 1) : ElemEncodes(j))
             => out = Ret(<<>>, "lookup: no such choice entry")

\* A sequence of three elements whose last is the first of an unregistered
\* type: the two before it encode, and no byte of them is returned.
C7_Witness ==
    /\ ChoicesCall
    /\ FirstUnregistered(3)
    /\ ElemEncodes(1) /\ ElemResult(1).data # <<>>
    /\ ElemEncodes(2)
    /\ out = Ret(<<>>, "lookup: no such choice entry")

\* The call is getRawValuesFromFields on a record whose one field is a
\* variant field holding a record.
VariantCall ==
    /\ op = "getRawValuesFromFields"
    /\ Len(arg.value.fields) = 1
    /\ parseOptions(arg.value.fields[1].tag).kind = "opts"
    /\ OptsOf(arg.value.fields[1].tag).variant # Nil
    /\ arg.value.fields[1].val.kind = "Struct"

\* The sub-fields of the variant field and the name of its table.
SubFields == arg.value.fields[1].val.fields
VariantName == Deref(OptsOf(arg.value.fields[1].tag).variant)

\* Sub-field u is the one marked unique: its own directive parses to a set
\* with the flag, those of the sub-fields before it to sets without.
IsUnique(u) ==
    /\ u \in 1..Len(SubFields)
    /\ \A j \in 1..u : parseOptions(SubFields[j].tag).kind = "opts"
    /\ OptsOf(SubFields[u].tag).unique
    /\ \A j \in 1..(u - 1) : ~OptsOf(SubFields[j].tag).unique

\* The lookup the claim asks for sub-field k after the unique sub-field u.
Lookup(u, k) == getVariant(VariantName, StringOf(SubFields[u].val), SubFields[k].name)

\* The child the claim asks for sub-field k: encoded with its own directive
\* up to the unique sub-field, with the looked-up options after it.
ChildAsClaimed(u, k) ==
    IF k <= u THEN encode(Ctx, SubFields[k].val, OptsOf(SubFields[k].tag))
    ELSE encode(Ctx, SubFields[k].val, Lookup(u, k).opts)

\* C8: in a variant field the sub-fields up to the one marked unique are
\* encoded with their own directives; every sub-field after it is encoded
\* with the options of the variant table lookup (name, discriminant,
\* sub-field name), for every discriminant, the empty string included, and a
\* failed lookup aborts the encode.
C8_LookupAfterUnique ==
    \A u \in 1..MaxFields + 1 :
        VariantCall /\ IsUnique(u)
          /\ (\A k \in 1..u : ChildAsClaimed(u, k).kind \in {"node", "absent"}) =>
            IF \E k \in (u + 1)..Len(SubFields) : Lookup(u, k).kind = "err"
            THEN out.kind = "err"
            ELSE IF \E k \in (u + 1)..Len(SubFields) :
                        ChildAsClaimed(u, k).kind \notin {"node", "absent"}
            THEN out.kind # "children"
            ELSE /\ out.kind = "children"
                 /\ Len(out.children) = Len(SubFields)
                 /\ \A k \in 1..Len(SubFields) : out.children[k] = ChildAsClaimed(u, k)

\* C9: the children getRawValuesFromFields collects are nodes, one for each
\* field or sub-field whose encode returned a node, in declaration order;
\* a field skipped by "-" or whose encode returned absent has no entry, so
\* no absent entry reaches the sort or the serialization of the children.
C9_OnlyNodes ==
    op = "getRawValuesFromFields" /\ out.kind = "children" =>
        \A i \in 1..Len(out.children) : IsNode(out.children[i])

\* C10: every encode call on a finite value ends with a node, absent or an
\* error, for every content of the choice tables: the choice step of
\* applyOptions, which applies the matched entry's nested options, does not
\* recurse without bound when they carry a choice directive themselves.
C10_Terminates ==
    op \in {"encode", "EncodeWithOptions"} => out.kind # "overflow"


=============================================================================
